---- MODULE Spec2Model ----
(***************************************************************************)
(* A model of src/Async/csv_backup.py (class XCOPYDownloader): the         *)
(* recursive, resumable IPFS downloader.  The gateway serves, for each     *)
(* content identifier, one fixed document (content addressing); whether a  *)
(* given HTTP attempt gets it is up to the network.                        *)
(***************************************************************************)
EXTENDS Integers, Sequences, FiniteSets, TLC

\* ------------------------------------------------------------- universe
Cids == {"A", "B", "C"}

\* The extensions probed by _exists and by the loop of download_cid, in order.
Exts == <<".json", ".gif", ".png", ".jpg", ".mp4", ".glb", ".html", ".bin", ".webp">>
ExtSet == {Exts[i] : i \in 1..Len(Exts)}

MaxItems == 2
MaxKills == 1
Workers == {1, 2}

NoWorker == 0

\* --------------------------------------------------------- JSON values
\* A parsed JSON value.  A string is kept as the list of identifiers that
\* cid_pattern.finditer yields on it (group 1 or group 2), in order.
JStr(h) == [t |-> "str", hits |-> h, vals |-> <<>>]
JDict(v) == [t |-> "dict", hits |-> <<>>, vals |-> v]
JList(v) == [t |-> "list", hits |-> <<>>, vals |-> v]
JNum == [t |-> "num", hits |-> <<>>, vals |-> <<>>]
\* json.loads raised.
ParseFail == [t |-> "fail", hits |-> <<>>, vals |-> <<>>]

RECURSIVE ConcatAll(_)
ConcatAll(ss) == IF ss = <<>> THEN <<>> ELSE Head(ss) \o ConcatAll(Tail(ss))

\* A mutant of ExtractAllCids: the parent is not left out.
RECURSIVE ExtractWithParent(_, _)
ExtractWithParent(obj, parent) ==
    IF obj.t = "str" THEN obj.hits
    ELSE IF obj.t \in {"dict", "list"}
         THEN ConcatAll([i \in 1..Len(obj.vals) |-> ExtractWithParent(obj.vals[i], parent)])
    ELSE <<>>

\* A mutant of ExtractAllCids: an identifier is appended only when the result
\* does not hold it yet.
RECURSIVE FirstOccurrences(_)
FirstOccurrences(q) ==
    IF q = <<>> THEN <<>>
    ELSE LET r == FirstOccurrences(SubSeq(q, 1, Len(q) - 1))
         IN IF \E i \in 1..Len(r) : r[i] = q[Len(q)] THEN r ELSE Append(r, q[Len(q)])
ExtractOnce(obj, parent) ==
    FirstOccurrences(SelectSeq(ExtractWithParent(obj, parent), LAMBDA c : c # parent))

\* _extract_all_cids(obj, parent_cid): the matches that differ from the parent,
\* in walk order, duplicates kept (a Python list).
RECURSIVE ExtractAllCids(_, _)
ExtractAllCids(obj, parent) ==
    IF obj.t = "str" THEN SelectSeq(obj.hits, LAMBDA c : c # parent)
    ELSE IF obj.t \in {"dict", "list"}
         THEN ConcatAll([i \in 1..Len(obj.vals) |-> ExtractAllCids(obj.vals[i], parent)])
    ELSE <<>>

\* The scan of an HTML text in download_cid: matches that differ from cid.
HtmlScan(hits, cid) == SelectSeq(hits, LAMBDA c : c # cid)

\* ----------------------------------------------------------- documents
\* The bytes the gateway serves for an identifier, as what the code asks of them:
\*   sigs    the magic-byte tests of lines 127-133 the bytes pass
\*   json    whether json.loads(data) succeeds (line 135)
\*   parsed  json.loads(data.decode("utf-8", errors="ignore")), or ParseFail
\*   hits    what cid_pattern.finditer yields on the decoded text
Doc(sigs, json, parsed, hits) ==
    [sigs |-> sigs, json |-> json, parsed |-> parsed, hits |-> hits]

\* The gateway has not been asked for the identifier yet.
NoDoc == Doc({"unknown"}, FALSE, ParseFail, <<>>)

\* A mutant of Classify: glTF is tested before the ISO-BMFF tag, and the JSON
\* parse before the signatures.
ClassifyOtherOrder(d) ==
    IF d.json THEN ".json"
    ELSE IF "html" \in d.sigs THEN ".html"
    ELSE IF "png" \in d.sigs THEN ".png"
    ELSE IF "jpg" \in d.sigs THEN ".jpg"
    ELSE IF "gif" \in d.sigs THEN ".gif"
    ELSE IF "webp" \in d.sigs THEN ".webp"
    ELSE IF "glb" \in d.sigs THEN ".glb"
    ELSE IF "mp4" \in d.sigs THEN ".mp4"
    ELSE ".bin"

\* Lines 126-136: the ordered extension test.
Classify(d) ==
    IF "html" \in d.sigs THEN ".html"
    ELSE IF "png" \in d.sigs THEN ".png"
    ELSE IF "jpg" \in d.sigs THEN ".jpg"
    ELSE IF "gif" \in d.sigs THEN ".gif"
    ELSE IF "webp" \in d.sigs THEN ".webp"
    ELSE IF "mp4" \in d.sigs THEN ".mp4"
    ELSE IF "glb" \in d.sigs THEN ".glb"
    ELSE IF d.json THEN ".json"
    ELSE ".bin"

StrsOf(r) == [i \in 1..Len(r) |-> JStr(<<r[i]>>)]

PngDoc == Doc({"png"}, FALSE, ParseFail, <<>>)
HtmlDoc(r) == Doc({"html"}, FALSE, ParseFail, r)
\* {"name": ..., "assets": [ "ipfs://<r1>", "ipfs://<r2>" ]}
DictDoc(r) == Doc({}, TRUE, JDict(<<JNum, JList(StrsOf(r))>>), r)
\* [ "ipfs://<r1>", "ipfs://<r2>" ]
ListDoc(r) == Doc({}, TRUE, JList(StrsOf(r)), r)

\* A JSON text with a byte order mark in front: json.loads accepts the bytes
\* (line 135) and refuses the decoded text (lines 99 and 151).
BomDoc(r) == Doc({}, TRUE, ParseFail, r)

\* The identifiers in a ring: each document may name itself, the next and the
\* previous identifier.
Succ(c) == IF c = "A" THEN "B" ELSE IF c = "B" THEN "C" ELSE "A"
Pred(c) == IF c = "A" THEN "C" ELSE IF c = "B" THEN "A" ELSE "B"

\* The documents the gateway may hold for identifier c.
DocsOf(c) ==
    { PngDoc,
      DictDoc(<<Succ(c)>>),
      DictDoc(<<c, Succ(c)>>),
      DictDoc(<<Succ(c), Succ(c)>>),
      DictDoc(<<Succ(c), Pred(c)>>),
      ListDoc(<<Succ(c)>>),
      BomDoc(<<Succ(c)>>),
      HtmlDoc(<<Pred(c)>>) }

\* The documents of the runs with several workers.
SharedDocsOf(c) == {PngDoc, DictDoc(<<Succ(c)>>), HtmlDoc(<<Pred(c)>>)}

SeqsUpTo(S, n) == UNION {[1..k -> S] : k \in 0..n}

\* ------------------------------------------------------ gateway fetcher
MaxAttempts == 40
MinSize == 1000

\* One HTTP attempt: session.get raised (exc), or answered with a status and a
\* body of len bytes.
Raised == [exc |-> TRUE, status |-> 0, len |-> 0]
Answer(st, n) == [exc |-> FALSE, status |-> st, len |-> n]
Responses == {Raised} \cup {Answer(st, n) : st \in {200, 404}, n \in {MinSize - 1, MinSize, MinSize + 1}}

\* What the network does to the attempts of one _download call: attempt i gets
\* `first` while i < switch and `then` from attempt `switch` on.
Script(a, k, b) == [first |-> a, switch |-> k, then |-> b]
ResponseAt(s, i) == IF i < s.switch THEN s.first ELSE s.then
Scripts == {Script(a, k, b) : a \in Responses, k \in {1, 2, MaxAttempts, MaxAttempts + 1}, b \in Responses}

\* A mutant of Qualifies: a body of exactly 1000 bytes is accepted.
QualifiesAtLeast(r) == ~r.exc /\ r.status = 200 /\ r.len >= MinSize

\* Line 45: the test of one response.
Qualifies(r) == ~r.exc /\ r.status = 200 /\ r.len > MinSize

\* A mutant of DownloadFrom: the loop gives up one attempt early.
RECURSIVE DownloadFromShort(_, _)
DownloadFromShort(s, i) ==
    IF i > MaxAttempts - 1 THEN [ok |-> FALSE, attempts |-> MaxAttempts - 1]
    ELSE IF ~ResponseAt(s, i).exc /\ ResponseAt(s, i).status = 200 /\ ResponseAt(s, i).len > MinSize
         THEN [ok |-> TRUE, attempts |-> i]
    ELSE DownloadFromShort(s, i + 1)

\* Lines 42-53: the loop of _download from attempt i on.  ok: content was
\* returned; attempts: the number of session.get calls made.
RECURSIVE DownloadFrom(_, _)
DownloadFrom(s, i) ==
    IF i > MaxAttempts THEN [ok |-> FALSE, attempts |-> MaxAttempts]
    ELSE IF Qualifies(ResponseAt(s, i)) THEN [ok |-> TRUE, attempts |-> i]
    ELSE DownloadFrom(s, i + 1)

Download(s) == DownloadFrom(s, 1)

\* The scripts the traversal is run against: the content arrives at once, or
\* after one failed attempt, or never (exceptions, or a body that is too small).
TraversalScripts ==
    { Script(Raised, 1, Answer(200, MinSize + 1)),
      Script(Answer(404, MinSize + 1), 2, Answer(200, MinSize + 1)),
      Script(Raised, MaxAttempts + 1, Raised),
      Script(Answer(200, MinSize), MaxAttempts + 1, Raised) }

\* ----------------------------------------------------------------- state
VARIABLES
    content,       \* what the gateway holds for each identifier (NoDoc: not yet known)
    files,         \* files_dir: for each identifier, the extensions it has a file under
    partial,       \* the identifiers whose file is open in write_bytes, or was when the
                   \* process was killed: it holds only a first part of the bytes
    downloaded,    \* self.downloaded
    progressFile,  \* download_progress.json: the "downloaded" list, or Truncated
    lock,          \* self.lock: the worker holding it, or NoWorker
    run,           \* the run: its work items and worker count
    queue,         \* the work items not yet handed to a worker
    stack,         \* per worker, the download_cid calls in progress, innermost last
    task,          \* per worker, what its current top-level call has done (fetched: the
                   \* identifiers _download was called for; again: an earlier call for the
                   \* same identifier returned True; missing: the identifiers found in the
                   \* stored document that had no file)
    hist,          \* the run so far (failed: a _download returned None; okTop: the work
                   \* items whose call returned True; returned: the number of work
                   \* items whose call has returned; raised: an exception has left
                   \* run(); kills: the restarts)
    dl,            \* a _download call on its own: its script and its result
    call           \* a call of one of the other functions on its own: its name, its
                   \* arguments and, once it has returned, its result

vars == <<content, files, partial, downloaded, progressFile, lock, run, queue, stack, task, hist, dl, call>>

\* download_progress.json: readable with a "downloaded" list, or cut short by
\* open(.., "w") before json.dump has written it.
Stored(ids) == [ok |-> TRUE, ids |-> ids]
Truncated == [ok |-> FALSE, ids |-> {}]

\* No function is being called on its own.
NoCall == [fn |-> "none"]

Frame(c) == [cid |-> c, pc |-> "start", existed |-> FALSE, ext |-> "", nested |-> <<>>,
             ret |-> FALSE, snap |-> {}, eff |-> {}]

Top(w) == stack[w][Len(stack[w])]
SetTop(w, f) == [stack EXCEPT ![w] = [@ EXCEPT ![Len(@)] = f]]
At(w, pc) == stack[w] # <<>> /\ Top(w).pc = pc

\* A mutant of Exists: only the .json name is probed.
ExistsJsonOnly(c) == ".json" \in files[c]

\* A mutant of Exists: the list of extensions lacks .html.
ExistsNoHtml(c) == files[c] \ {".html"} # {}

\* _exists(cid), line 56.
Exists(c) == files[c] # {}

\* Lines 88-90: the first extension, in list order, under which cid has a file.
FoundExt(c) == Exts[CHOOSE i \in 1..Len(Exts) :
                      Exts[i] \in files[c] /\ \A j \in 1..(i - 1) : Exts[j] \notin files[c]]

\* The prefixes of a sequence.
Prefixes(q) == {SubSeq(q, 1, k) : k \in 0..Len(q)}

\* Line 94: what read_bytes gives for the file of cid: the document as it was
\* fetched, or, for a file cut short, a text that no longer parses as JSON and
\* holds some first part of the matches.
StoredDocs(cid) ==
    IF cid \in partial
    THEN {Doc(content[cid].sigs, FALSE, ParseFail, h) : h \in Prefixes(content[cid].hits)}
    ELSE {content[cid]}

\* Lines 92-107 and 117: the identifiers found in the stored document of cid.
ExistingNested(d, cid, ext) ==
    IF ext = ".json"
    THEN IF d.parsed.t = "fail" THEN <<>> ELSE ExtractAllCids(d.parsed, cid)
    ELSE IF ext = ".html" THEN HtmlScan(d.hits, cid)
    ELSE <<>>

\* A mutant of FreshNested: the matches of the text are taken when the parse
\* fails.
FreshNestedFromText(d, cid, ext) ==
    IF ext = ".json"
    THEN IF d.parsed.t = "fail" THEN HtmlScan(d.hits, cid)
         ELSE IF d.parsed.t # "dict" THEN <<>>
         ELSE ExtractAllCids(d.parsed, cid)
    ELSE IF ext = ".html" THEN HtmlScan(d.hits, cid)
    ELSE <<>>

\* Lines 145-160 and 170: the identifiers found in the document just fetched.
\* meta.get raises on a value that is no dict, and the except clause ends the
\* expansion before the loop of line 164.
FreshNested(d, cid, ext) ==
    IF ext = ".json"
    THEN IF d.parsed.t = "fail" THEN <<>>
         ELSE IF d.parsed.t # "dict" THEN <<>>
         ELSE ExtractAllCids(d.parsed, cid)
    ELSE IF ext = ".html" THEN HtmlScan(d.hits, cid)
    ELSE <<>>

\* Lines 108 and 162: with no nested identifier the call returns at once.
AfterExpand(f, nested) ==
    IF nested = <<>> THEN [f EXCEPT !.pc = "ret", !.ret = TRUE, !.nested = <<>>]
    ELSE [f EXCEPT !.pc = "loop", !.nested = nested]

\* ------------------------------------------------------------- actions
\* run, lines 197-203: a free worker takes the next work item and calls
\* download_cid on it (with workers = 1, the loop of line 198).
Take(w) ==
    /\ w <= run.nworkers
    /\ stack[w] = <<>>
    /\ \A v \in 1..(w - 1) : stack[v] # <<>>
    /\ queue # <<>>
    /\ stack' = [stack EXCEPT ![w] = <<Frame(Head(queue))>>]
    /\ queue' = Tail(queue)
    /\ task' = [task EXCEPT ![w] = [fetched |-> {}, again |-> Head(queue) \in hist.okTop, missing |-> {}]]
    /\ UNCHANGED <<content, files, partial, downloaded, progressFile, lock, run, hist, dl, call>>

\* A mutant of FetchFail: the failed call reports success.
FetchFailReturnsTrue(w, f) ==
    /\ stack' = SetTop(w, [f EXCEPT !.pc = "ret", !.ret = TRUE])
    /\ hist' = [hist EXCEPT !.failed = TRUE]
    /\ UNCHANGED <<content, files, partial, downloaded, progressFile>>

\* A mutant of FetchFail: the identifier is marked as downloaded before the
\* result of _download is looked at.
FetchFailMarks(w, f) ==
    /\ stack' = SetTop(w, [f EXCEPT !.pc = "ret", !.ret = FALSE])
    /\ hist' = [hist EXCEPT !.failed = TRUE]
    /\ downloaded' = downloaded \cup {f.cid}
    /\ UNCHANGED <<content, files, partial, progressFile>>

\* Lines 121-123: _download returned None.
FetchFail(w, f) ==
    /\ stack' = SetTop(w, [f EXCEPT !.pc = "ret", !.ret = FALSE])
    /\ hist' = [hist EXCEPT !.failed = TRUE]
    /\ UNCHANGED <<content, files, partial, downloaded, progressFile>>

\* A mutant of FetchOk: the identifier is added to the set and the progress
\* file rewritten before the file is written.
FetchOkMarksFirst(w, f, d) ==
    /\ content' = [content EXCEPT ![f.cid] = d]
    /\ stack' = SetTop(w, [f EXCEPT !.pc = "write", !.ext = Classify(d)])
    /\ downloaded' = downloaded \cup {f.cid}
    /\ progressFile' = Stored(downloaded')
    /\ UNCHANGED <<files, partial, hist>>

\* Lines 121 and 125-136: _download returned the bytes d, which are classified.
FetchOk(w, f, d) ==
    /\ content' = [content EXCEPT ![f.cid] = d]
    /\ stack' = SetTop(w, [f EXCEPT !.pc = "write", !.ext = Classify(d)])
    /\ UNCHANGED <<files, partial, downloaded, progressFile, hist>>

\* The documents a run may meet under identifier c.
WorldOf(c) == IF run.nworkers = 1 THEN DocsOf(c) ELSE SharedDocsOf(c)

\* Lines 84-118, the identifier has a file: the stored JSON or HTML document
\* is scanned for nested identifiers.
StartExisting(w) ==
    /\ At(w, "start")
    /\ Exists(Top(w).cid)
    /\ LET f == Top(w)
           ext == FoundExt(f.cid)
       IN \E d \in StoredDocs(f.cid) :
             LET nested == ExistingNested(d, f.cid, ext) IN
             /\ stack' = SetTop(w, AfterExpand([f EXCEPT !.existed = TRUE, !.ext = ext], nested))
             /\ task' = IF Len(stack[w]) = 1
                        THEN [task EXCEPT ![w].missing = {nested[i] : i \in {j \in 1..Len(nested) : ~Exists(nested[j])}}]
                        ELSE task
    /\ UNCHANGED <<content, files, partial, downloaded, progressFile, lock, run, queue, hist, dl, call>>

\* Lines 84 and 121-136, the identifier has no file: _download is called (it
\* touches nothing the other workers see) and its bytes are classified.
StartFetch(w) ==
    /\ At(w, "start")
    /\ ~Exists(Top(w).cid)
    /\ LET f == Top(w) IN
       \E s \in TraversalScripts :
          IF Download(s).ok
          THEN \E d \in (IF content[f.cid] = NoDoc THEN WorldOf(f.cid) ELSE {content[f.cid]}) :
                  FetchOk(w, f, d)
          ELSE FetchFail(w, f)
    /\ task' = [task EXCEPT ![w].fetched = @ \cup {Top(w).cid}]
    /\ UNCHANGED <<lock, run, queue, dl, call>>

\* Line 139, write_bytes opens the file: it exists from now on, with none of
\* its bytes yet.
WriteOpen(w) ==
    /\ At(w, "write")
    /\ LET f == Top(w) IN
       /\ files' = [files EXCEPT ![f.cid] = @ \cup {f.ext}]
       /\ partial' = partial \cup {f.cid}
       /\ stack' = SetTop(w, [f EXCEPT !.pc = "writing", !.eff = @ \cup {"file"}])
    /\ UNCHANGED <<content, downloaded, progressFile, lock, run, queue, task, hist, dl, call>>

\* A mutant of WriteDone: the fetched document is scanned and its nested
\* identifiers are processed right after the write, before the identifier is
\* added to the set.
WriteDoneExpandsFirst(w) ==
    /\ At(w, "writing")
    /\ partial' = partial \ {Top(w).cid}
    /\ stack' = SetTop(w, AfterExpand(Top(w), FreshNested(content[Top(w).cid], Top(w).cid, Top(w).ext)))
    /\ UNCHANGED <<content, files, downloaded, progressFile, lock, run, queue, task, hist, dl, call>>

\* Line 139, write_bytes has written the bytes and closed the file.
WriteDone(w) ==
    /\ At(w, "writing")
    /\ partial' = partial \ {Top(w).cid}
    /\ stack' = SetTop(w, [Top(w) EXCEPT !.pc = "lock"])
    /\ UNCHANGED <<content, files, downloaded, progressFile, lock, run, queue, task, hist, dl, call>>

\* A mutant of CanLock: the with-block is entered without the lock.
CanLockAlways(w) == TRUE

\* Line 140: whether worker w may enter the with-block.
CanLock(w) == lock = NoWorker

\* A mutant of Lock: the list to be written is taken before the identifier is
\* added.
LockStale(w) ==
    /\ At(w, "lock")
    /\ CanLock(w)
    /\ lock' = w
    /\ LET f == Top(w) IN
       /\ downloaded' = downloaded \cup {f.cid}
       /\ progressFile' = Truncated
       /\ stack' = SetTop(w, [f EXCEPT !.pc = "dump", !.snap = downloaded,
                                       !.eff = @ \cup {"set", "pfile"}])
    /\ UNCHANGED <<content, files, partial, run, queue, task, hist, dl, call>>

\* Lines 140-142 up to the open of line 37: take the lock, add the identifier
\* to the set, take list(self.downloaded), and open(.., "w") cuts the file to
\* nothing.
Lock(w) ==
    /\ At(w, "lock")
    /\ CanLock(w)
    /\ lock' = w
    /\ LET f == Top(w) IN
       /\ downloaded' = downloaded \cup {f.cid}
       /\ progressFile' = Truncated
       /\ stack' = SetTop(w, [f EXCEPT !.pc = "dump", !.snap = downloaded',
                                       !.eff = @ \cup {"set", "pfile"}])
    /\ UNCHANGED <<content, files, partial, run, queue, task, hist, dl, call>>

\* Line 37, second half, the end of the with-block, and lines 145-162: json.dump
\* writes the list, the lock is released, and the fetched document is scanned.
Dump(w) ==
    /\ At(w, "dump")
    /\ LET f == Top(w) IN
       /\ progressFile' = Stored(f.snap)
       /\ stack' = SetTop(w, AfterExpand([f EXCEPT !.snap = {}],
                                         FreshNested(content[f.cid], f.cid, f.ext)))
    /\ lock' = IF lock = w THEN NoWorker ELSE lock
    /\ UNCHANGED <<content, files, partial, downloaded, run, queue, task, hist, dl, call>>

\* The calls one worker can have in progress: a nested call is made for an
\* identifier that has no file while every caller's identifier has one, so the
\* identifiers of a stack differ; the model keeps room for one call more.
MaxDepth == Cardinality(Cids) + 1

\* A mutant of NeedsDownload: the nested identifier is passed on without the
\* existence check.
NeedsDownloadAlways(c) == TRUE

\* A mutant of NeedsDownload: the ProgressSet is asked instead of the files.
NeedsDownloadUnlessMarked(c) == c \notin downloaded

\* Lines 112 and 165: whether the nested identifier is passed to download_cid.
NeedsDownload(c) == ~Exists(c)

\* A mutant of Loop: a nested identifier without a file is put on the work
\* list, for whichever worker is free, instead of being processed by the call.
LoopHandsOff(w) ==
    /\ At(w, "loop")
    /\ LET f == Top(w) IN
       IF f.nested = <<>>
       THEN /\ stack' = SetTop(w, [f EXCEPT !.pc = "ret", !.ret = TRUE])
            /\ queue' = queue
       ELSE LET n == Head(f.nested)
                g == [f EXCEPT !.nested = Tail(f.nested)]
            IN /\ stack' = SetTop(w, g)
               /\ queue' = IF NeedsDownload(n) /\ Len(queue) < MaxItems THEN Append(queue, n) ELSE queue
    /\ UNCHANGED <<content, files, partial, downloaded, progressFile, lock, run, task, hist, dl, call>>

\* Lines 111-116 and 164-169: one round of the loop over the nested identifiers.
Loop(w) ==
    /\ At(w, "loop")
    /\ LET f == Top(w) IN
       IF f.nested = <<>>
       THEN stack' = SetTop(w, [f EXCEPT !.pc = "ret", !.ret = TRUE])
       ELSE LET n == Head(f.nested)
                g == [f EXCEPT !.nested = Tail(f.nested)]
            IN IF NeedsDownload(n)
               THEN /\ Len(stack[w]) < MaxDepth
                    /\ stack' = [stack EXCEPT ![w] = Append(SubSeq(@, 1, Len(@) - 1), g) \o <<Frame(n)>>]
               ELSE stack' = SetTop(w, g)
    /\ UNCHANGED <<content, files, partial, downloaded, progressFile, lock, run, queue, task, hist, dl, call>>

\* Lines 118, 123 and 171: the call returns to its caller, which ignores the
\* value (lines 114, 167 and 195).
\* A mutant of Return: a work item whose call returns False ends the batch.
ReturnAborts(w) ==
    /\ At(w, "ret")
    /\ stack' = [stack EXCEPT ![w] = SubSeq(@, 1, Len(@) - 1)]
    /\ hist' = IF Len(stack[w]) = 1
               THEN [hist EXCEPT !.returned = @ + 1,
                                 !.okTop = IF Top(w).ret THEN @ \cup {Top(w).cid} ELSE @]
               ELSE hist
    /\ queue' = IF Len(stack[w]) = 1 /\ ~Top(w).ret THEN <<>> ELSE queue
    /\ UNCHANGED <<content, files, partial, downloaded, progressFile, lock, run, task, dl, call>>

Return(w) ==
    /\ At(w, "ret")
    /\ stack' = [stack EXCEPT ![w] = SubSeq(@, 1, Len(@) - 1)]
    /\ hist' = IF Len(stack[w]) = 1
               THEN [hist EXCEPT !.returned = @ + 1,
                                 !.okTop = IF Top(w).ret THEN @ \cup {Top(w).cid} ELSE @]
               ELSE hist
    /\ UNCHANGED <<content, files, partial, downloaded, progressFile, lock, run, queue, task, dl, call>>

\* _load_progress, lines 29-34: the set a new process starts with.
LoadProgress == IF progressFile.ok THEN progressFile.ids ELSE {}

\* The process is killed (or has ended) and the same command is run again:
\* every call in progress is lost, a file that write_bytes had opened stays as
\* it is, and __init__ builds a new downloader on the same directory.
Kill ==
    /\ hist.kills < MaxKills
    /\ downloaded' = LoadProgress
    /\ lock' = NoWorker
    /\ queue' = run.items
    /\ stack' = [w \in Workers |-> <<>>]
    /\ task' = [w \in Workers |-> [fetched |-> {}, again |-> FALSE, missing |-> {}]]
    /\ hist' = [hist EXCEPT !.kills = @ + 1, !.okTop = {}, !.returned = 0, !.raised = FALSE, !.failed = FALSE]
    /\ content' = [c \in Cids |-> IF files[c] = {} THEN NoDoc ELSE content[c]]
    /\ UNCHANGED <<files, partial, progressFile, run, dl, call>>

\* ------------------------------------------------------- specification
\* The work lists.  The documents are the same around the ring, so the first
\* item is taken to be "A".
ItemLists == {its \in SeqsUpTo(Cids, MaxItems) : its # <<>> /\ its[1] = "A"}

\* A fresh output directory: __init__ creates files_dir, finds no progress file
\* and leaves self.downloaded empty.
Init ==
    /\ content = [c \in Cids |-> NoDoc]
    /\ files = [c \in Cids |-> {}]
    /\ partial = {}
    /\ downloaded = {}
    /\ progressFile = Stored({})
    /\ lock = NoWorker
    /\ run \in {[items |-> its, nworkers |-> n] : its \in ItemLists, n \in Workers}
    /\ queue = run.items
    /\ stack = [w \in Workers |-> <<>>]
    /\ task = [w \in Workers |-> [fetched |-> {}, again |-> FALSE, missing |-> {}]]
    /\ hist = [failed |-> FALSE, okTop |-> {}, returned |-> 0, raised |-> FALSE, kills |-> 0]
    /\ dl = [script |-> Script(Raised, 1, Raised), res |-> [ok |-> FALSE, attempts |-> 0]]
    /\ call = NoCall

Next ==
    \E w \in Workers :
        \/ Take(w)
        \/ StartExisting(w)
        \/ StartFetch(w)
        \/ WriteOpen(w)
        \/ WriteDone(w)
        \/ Lock(w)
        \/ Dump(w)
        \/ Loop(w)
        \/ Return(w)

Spec == Init /\ [][Next]_vars

\* A _download call of its own, on any script.
RunDownload ==
    /\ dl.res.attempts = 0
    /\ dl' = [dl EXCEPT !.res = Download(dl.script)]
    /\ UNCHANGED <<content, files, partial, downloaded, progressFile, lock, run, queue, stack, task, hist, call>>

InitScript ==
    /\ content = [c \in Cids |-> NoDoc]
    /\ files = [c \in Cids |-> {}]
    /\ partial = {}
    /\ downloaded = {}
    /\ progressFile = Stored({})
    /\ lock = NoWorker
    /\ run = [items |-> <<"A">>, nworkers |-> 1]
    /\ queue = run.items
    /\ stack = [w \in Workers |-> <<>>]
    /\ task = [w \in Workers |-> [fetched |-> {}, again |-> FALSE, missing |-> {}]]
    /\ hist = [failed |-> FALSE, okTop |-> {}, returned |-> 0, raised |-> FALSE, kills |-> 0]
    /\ dl \in {[script |-> s, res |-> [ok |-> FALSE, attempts |-> 0]] : s \in Scripts}
    /\ call = NoCall

NextFetch == RunDownload

\* _download alone, over every script.
SpecFetch == InitScript /\ [][NextFetch]_vars

NextKill == Next \/ Kill

\* The runs in which the process may be killed and started again.
InitKill == Init /\ \A i, j \in 1..Len(run.items) : i # j => run.items[i] # run.items[j]
SpecKill == InitKill /\ [][NextKill]_vars

\* ------------------------------------------------------- storage errors
\* An exception leaves the download_cid call of worker w.  The call of a nested
\* identifier is made inside the try of lines 93-117 or 146-170: the caller's
\* except clause swallows the exception, the rest of its loop is skipped and
\* it returns True.  The call of a work item is made by task (line 195), with
\* no try around it: with workers = 1 the exception leaves the loop of line
\* 198 and run(), the items left are not processed; with more workers the
\* future keeps it and future.result() (line 203) raises it out of run(), once
\* the pool has worked off the items left.
Raise(w) ==
    IF Len(stack[w]) > 1
    THEN /\ stack' = [stack EXCEPT ![w] =
                         Append(SubSeq(@, 1, Len(@) - 2),
                                [@[Len(@) - 1] EXCEPT !.pc = "ret", !.ret = TRUE, !.nested = <<>>])]
         /\ UNCHANGED <<queue, hist>>
    ELSE /\ stack' = [stack EXCEPT ![w] = <<>>]
         /\ hist' = [hist EXCEPT !.raised = TRUE]
         /\ queue' = IF run.nworkers = 1 THEN <<>> ELSE queue

\* Line 139: write_bytes raises OSError (no space, no permission) before it
\* has created the file.
WriteFail(w) ==
    /\ At(w, "write")
    /\ Raise(w)
    /\ UNCHANGED <<content, files, partial, downloaded, progressFile, lock, run, task, dl, call>>

\* Line 37: json.dump raises after open(.., "w") has cut the file; the
\* with-block of line 140 releases the lock.
SaveFail(w) ==
    /\ At(w, "dump")
    /\ Raise(w)
    /\ lock' = IF lock = w THEN NoWorker ELSE lock
    /\ UNCHANGED <<content, files, partial, downloaded, progressFile, run, task, dl, call>>

NextFaulty == Next \/ \E w \in Workers : WriteFail(w) \/ SaveFail(w)

\* The runs in which the storage may fail.
SpecFaulty == InitKill /\ [][NextFaulty]_vars

\* ------------------------------------------- functions called on their own
\* The state of the downloader while one of its functions is looked at alone.
Quiet ==
    /\ content = [c \in Cids |-> NoDoc]
    /\ files = [c \in Cids |-> {}]
    /\ partial = {}
    /\ downloaded = {}
    /\ progressFile = Stored({})
    /\ lock = NoWorker
    /\ run = [items |-> <<"A">>, nworkers |-> 1]
    /\ queue = run.items
    /\ stack = [w \in Workers |-> <<>>]
    /\ task = [w \in Workers |-> [fetched |-> {}, again |-> FALSE, missing |-> {}]]
    /\ hist = [failed |-> FALSE, okTop |-> {}, returned |-> 0, raised |-> FALSE, kills |-> 0]
    /\ dl = [script |-> Script(Raised, 1, Raised), res |-> [ok |-> FALSE, attempts |-> 0]]
quietVars == <<content, files, partial, downloaded, progressFile, lock, run, queue, stack, task, hist, dl>>

\* The JSON values and HTML texts the walker is run on: strings with up to
\* MaxMatches matches, numbers, lists and dicts of up to MaxElems numbers and
\* strings with one match or none, and a dict in a list and a list in a dict.
MaxMatches == 2
MaxElems == 2
WalkStrings == {JStr(h) : h \in SeqsUpTo(Cids, MaxMatches)}
WalkAtoms == WalkStrings \cup {JNum}
WalkElems == {JNum, JStr(<<>>)} \cup {JStr(<<c>>) : c \in Cids}
WalkValues ==
    WalkAtoms
      \cup {JList(v) : v \in SeqsUpTo(WalkElems, MaxElems)}
      \cup {JDict(v) : v \in SeqsUpTo(WalkElems, MaxElems)}
      \cup {JDict(<<a, JList(<<b>>)>>) : a, b \in WalkStrings}
      \cup {JList(<<JDict(<<a>>), b>>) : a, b \in WalkStrings}

InitWalk ==
    /\ Quiet
    /\ call \in {[fn |-> "walk", obj |-> v, parent |-> p, done |-> FALSE, out |-> <<>>] :
                    v \in WalkValues, p \in Cids}
              \cup {[fn |-> "scan", obj |-> v, parent |-> p, done |-> FALSE, out |-> <<>>] :
                    v \in WalkStrings, p \in Cids}

\* _extract_all_cids(obj, parent_cid) is called.
RunWalk ==
    /\ call.fn = "walk" /\ ~call.done
    /\ call' = [call EXCEPT !.done = TRUE, !.out = ExtractAllCids(call.obj, call.parent)]
    /\ UNCHANGED quietVars

\* Lines 155-159 run on the text of an HTML document.
RunScan ==
    /\ call.fn = "scan" /\ ~call.done
    /\ call' = [call EXCEPT !.done = TRUE, !.out = HtmlScan(call.obj.hits, call.parent)]
    /\ UNCHANGED quietVars

NextWalk == RunWalk \/ RunScan
SpecWalk == InitWalk /\ [][NextWalk]_vars

\* The bytes of a response, as far as lines 127-135 look at them:
\*   head  which of the tested prefixes the bytes start with, if any
\*   tag4  data[4:8]: one of the four ISO-BMFF tags, other bytes, or "short"
\*         when there are fewer than 8 bytes
\*   tag8  data[8:12]: "WEBP", other bytes, or "short" when there are fewer
\*         than 12 bytes
\*   json  whether json.loads(data) succeeds
\* The doctype prefix fixes bytes 4 to 11 ("CTYPE ht"); a JSON text starts with
\* none of the prefixes; 12 bytes are at least 8.
Heads == {"doctype", "png", "jpeg", "gif8", "riff", "gltf", "none"}
Tags4 == {"ftyp", "mdat", "moov", "wide", "other", "short"}
Tags8 == {"WEBP", "other", "short"}
ByteStrings ==
    {b \in [head : Heads, tag4 : Tags4, tag8 : Tags8, json : BOOLEAN] :
        /\ b.head = "doctype" => (b.tag4 = "other" /\ b.tag8 = "other")
        /\ b.json => b.head = "none"
        /\ b.tag4 = "short" => b.tag8 = "short"}

\* Lines 127-133: the signature tests the bytes pass.
SigsOf(b) ==
    (IF b.head = "doctype" THEN {"html"} ELSE {})
      \cup (IF b.head = "png" THEN {"png"} ELSE {})
      \cup (IF b.head = "jpeg" THEN {"jpg"} ELSE {})
      \cup (IF b.head = "gif8" THEN {"gif"} ELSE {})
      \cup (IF b.tag8 # "short" /\ b.head = "riff" /\ b.tag8 = "WEBP" THEN {"webp"} ELSE {})
      \cup (IF b.tag4 # "short" /\ b.tag4 \in {"ftyp", "mdat", "moov", "wide"} THEN {"mp4"} ELSE {})
      \cup (IF b.head = "gltf" THEN {"glb"} ELSE {})

InitClassify ==
    /\ Quiet
    /\ call \in {[fn |-> "classify", bytes |-> b, done |-> FALSE, out |-> ""] : b \in ByteStrings}

\* Lines 125-136 run on the bytes.
RunClassify ==
    /\ call.fn = "classify" /\ ~call.done
    /\ call' = [call EXCEPT !.done = TRUE,
                             !.out = Classify(Doc(SigsOf(call.bytes), call.bytes.json, ParseFail, <<>>))]
    /\ UNCHANGED quietVars

NextClassify == RunClassify
SpecClassify == InitClassify /\ [][NextClassify]_vars

\* ------------------------------------------------------------ cid_pattern
\* A text is a sequence of characters; a URL scaffold that the pattern may
\* consume before an identifier (ipfs://, or a gateway address up to its last
\* slash) is kept as one element.  The texts looked at have a scaffold only at
\* their start or after a separator.
Lowers == {"q", "m", "b", "a", "f", "x"}
Uppers == {"Q", "M", "B", "A", "F", "X"}
Digits == {"0", "1"}
Scaffolds == {"ipfs://", "IPFS://", "https://ipfs.io/ipfs/"}

\* re.I: letters are compared after case folding.
Fold(ch) ==
    CASE ch = "Q" -> "q" [] ch = "M" -> "m" [] ch = "B" -> "b"
      [] ch = "A" -> "a" [] ch = "F" -> "f" [] ch = "X" -> "x"
      [] OTHER -> ch

\* Line 26: the lengths written in the pattern.
V0Body == 44
V1Body == 50

\* [a-zA-Z0-9], and [a-z0-9] under re.I.
Alnum(ch) == ch \in Lowers \cup Uppers \cup Digits
AlnumFolded(ch) == Fold(ch) \in Lowers \cup Digits

\* The number of characters from position p on that pass the test ok.
RECURSIVE RunLen(_, _)
RunLen(s, p) == IF p > Len(s) \/ ~AlnumFolded(s[p]) THEN 0 ELSE 1 + RunLen(s, p + 1)

NoMatch == [ok |-> FALSE, group |-> <<>>, end |-> 0]

\* (?:(Qm[a-zA-Z0-9]{44})|(baf[a-z0-9]{50,})) tried at position p, under re.I.
IdAt(s, p) ==
    IF /\ p + 1 + V0Body <= Len(s)
       /\ Fold(s[p]) = "q" /\ Fold(s[p + 1]) = "m"
       /\ \A k \in (p + 2)..(p + 1 + V0Body) : Alnum(s[k])
    THEN [ok |-> TRUE, group |-> SubSeq(s, p, p + 1 + V0Body), end |-> p + 2 + V0Body]
    ELSE IF /\ p + 2 <= Len(s)
            /\ Fold(s[p]) = "b" /\ Fold(s[p + 1]) = "a" /\ Fold(s[p + 2]) = "f"
            /\ RunLen(s, p + 3) >= V1Body
    THEN [ok |-> TRUE, group |-> SubSeq(s, p, p + 2 + RunLen(s, p + 3)),
          end |-> p + 3 + RunLen(s, p + 3)]
    ELSE NoMatch

\* The whole pattern tried at position p: the scaffold is optional.
MatchAt(s, p) ==
    IF s[p] \in Scaffolds /\ p + 1 <= Len(s) /\ IdAt(s, p + 1).ok
    THEN IdAt(s, p + 1)
    ELSE IdAt(s, p)

\* cid_pattern.finditer(s) from position p on, each match given as
\* match.group(1) or match.group(2) (lines 64-66).
RECURSIVE FindFrom(_, _)
FindFrom(s, p) ==
    IF p > Len(s) THEN <<>>
    ELSE IF MatchAt(s, p).ok THEN <<MatchAt(s, p).group>> \o FindFrom(s, MatchAt(s, p).end)
    ELSE FindFrom(s, p + 1)

FindIdentifiers(s) == FindFrom(s, 1)

Repeat(ch, n) == [i \in 1..n |-> ch]

\* The texts scanned: something before, a two-letter or three-letter head, a
\* body of n equal characters, something after.
TextOf(t) == t.pre \o t.head \o Repeat(t.body, t.n) \o t.post
ScanTexts ==
    [pre : {<<>>, <<"-">>, <<"x">>, <<"ipfs://">>, <<"-", "IPFS://">>},
     head : {<<"Q", "m">>, <<"q", "m">>, <<"Q", "M">>},
     body : {"a", "A", "0"},
     n : {V0Body - 1, V0Body, V0Body + 1},
     post : {<<>>, <<"-">>}]
    \cup
    [pre : {<<>>, <<"-">>, <<"https://ipfs.io/ipfs/">>},
     head : {<<"b", "a", "f">>, <<"B", "a", "f">>},
     body : {"a", "A", "1"},
     n : {V1Body - 1, V1Body, V1Body + 1},
     post : {<<>>, <<"-">>}]

InitFind ==
    /\ Quiet
    /\ call \in {[fn |-> "find", text |-> t, done |-> FALSE, out |-> <<>>] : t \in ScanTexts}

\* Line 64 run on the text.
RunFind ==
    /\ call.fn = "find" /\ ~call.done
    /\ call' = [call EXCEPT !.done = TRUE, !.out = FindIdentifiers(TextOf(call.text))]
    /\ UNCHANGED quietVars

NextFind == RunFind
SpecFind == InitFind /\ [][NextFind]_vars

\* ---------------------------------------------------------- progress file
\* download_progress.json as _load_progress finds it: absent, not JSON at all
\* ("garbage": cut short, or other bytes), a JSON value that is no object
\* ("notdict"), an object without the key "downloaded" ("nokey"), or an object
\* whose "downloaded" is the value val.  A value is a list of strings (or of
\* something unhashable, the element Unhashable), a string (items: its
\* characters), an object (items: its keys), a number or null.
Unhashable == "[...]"
PVal(t, items) == [t |-> t, items |-> items]
PFile(kind, val) == [kind |-> kind, val |-> val]
NoPVal == PVal("none", <<>>)

MaxAdds == 3

\* list(self.downloaded), line 37: the elements of the set, once each, in an
\* order that is up to the interpreter.
ListsOfFirst(S) == {q \in [1..Cardinality(S) -> S] : \A i \in 1..Cardinality(S) : q[i] = q[1]}

ListsOf(S) == {q \in [1..Cardinality(S) -> S] : {q[i] : i \in 1..Cardinality(S)} = S}

\* _save_progress, line 37: the files json.dump may leave for the set S.
DumpOf(S) == {PFile("obj", PVal("list", q)) : q \in ListsOf(S)}

\* set(v) of line 32: the elements of a list, the characters of a string, the
\* keys of an object; TypeError for a number, for null and for a list with an
\* unhashable element.
SetOf(v) ==
    IF v.t = "list"
    THEN IF \E i \in 1..Len(v.items) : v.items[i] = Unhashable
         THEN [ok |-> FALSE, set |-> {}]
         ELSE [ok |-> TRUE, set |-> {v.items[i] : i \in 1..Len(v.items)}]
    ELSE IF v.t \in {"str", "dict"}
    THEN [ok |-> TRUE, set |-> {v.items[i] : i \in 1..Len(v.items)}]
    ELSE [ok |-> FALSE, set |-> {}]

\* __init__ line 19 and _load_progress, lines 29-34: the set a downloader
\* built on the file starts with.  Every exception is swallowed and leaves the
\* empty set of line 19.
ReadProgress(f) ==
    IF f.kind \in {"absent", "garbage", "notdict"} THEN {}
    ELSE IF f.kind = "nokey" THEN {}
    ELSE IF SetOf(f.val).ok THEN SetOf(f.val).set
    ELSE {}

\* The files a downloader may be built on.
ProgressFiles ==
    {PFile(k, NoPVal) : k \in {"absent", "garbage", "notdict", "nokey"}}
      \cup {PFile("obj", v) : v \in {PVal("list", <<>>), PVal("list", <<"A">>),
                                      PVal("list", <<"B", "A">>), PVal("list", <<"A", Unhashable>>),
                                      PVal("str", <<"A", "B">>), PVal("dict", <<"A">>),
                                      PVal("num", <<>>), PVal("null", <<>>)}}

\* call.first: the file the downloader was built on; call.start: the set it
\* started with; call.mem: self.downloaded; call.hist: the identifiers added
\* since, in order.
InitProgress ==
    /\ Quiet
    /\ call \in {[fn |-> "progress", first |-> f, file |-> f, start |-> ReadProgress(f),
                   mem |-> ReadProgress(f), hist |-> <<>>, restarts |-> 0] : f \in ProgressFiles}

\* Lines 141-142 for identifier c: added to the set, and the file rewritten.
Materialize(c) ==
    /\ call.fn = "progress"
    /\ Len(call.hist) < MaxAdds
    /\ \E f \in DumpOf(call.mem \cup {c}) :
          call' = [call EXCEPT !.mem = @ \cup {c}, !.file = f, !.hist = Append(@, c)]
    /\ UNCHANGED quietVars

\* A new XCOPYDownloader is built on the same output directory.
Restart ==
    /\ call.fn = "progress"
    /\ call.restarts < MaxKills
    /\ call' = [call EXCEPT !.first = call.file, !.start = ReadProgress(call.file),
                             !.mem = ReadProgress(call.file), !.hist = <<>>,
                             !.restarts = @ + 1]
    /\ UNCHANGED quietVars

NextProgress == (\E c \in Cids : Materialize(c)) \/ Restart
SpecProgress == InitProgress /\ [][NextProgress]_vars

\* ------------------------------------------------------------- work source
\* The value of a column of one CSV record: none (the column is missing), or a
\* string, kept as its text without the white space around it (core), whether
\* there is white space around it (pad), and what cid_pattern finds in it
\* (hits).
NoValue == [none |-> TRUE, pad |-> FALSE, core |-> "", hits |-> <<>>]
Value(core, pad, hits) == [none |-> FALSE, pad |-> pad, core |-> core, hits |-> hits]
EmptyString == Value("", FALSE, <<>>)

\* Line 187: the strings that stand for "no identifier".
Sentinels == {"See CSV", "On-Chain", "Arweave", "--"}

\* Python truth of a column value: None and "" are false, " " is true.
Truthy(v) == ~v.none /\ (v.pad \/ v.core # "")
\* a or b or ""
OrElse(a, b) == IF Truthy(a) THEN a ELSE IF Truthy(b) THEN b ELSE EmptyString
\* str.strip()
Strip(v) == v.core

\* A mutant of RowItems: the test of line 187 is left out.
RowItemsUnfiltered(row) ==
    LET direct == Strip(OrElse(row.cid, row.CID))
        url == OrElse(row.metadata_url, row.metadataUrl)
        cid == IF direct # "" THEN direct
               ELSE IF Strip(url) # "" /\ url.hits # <<>> THEN url.hits[1]
               ELSE ""
    IN <<cid>>

\* Lines 176-189 for one record: the identifiers appended to items.
RowItems(row) ==
    LET direct == Strip(OrElse(row.cid, row.CID))
        url == OrElse(row.metadata_url, row.metadataUrl)
        cid == IF direct # "" THEN direct
               ELSE IF Strip(url) # "" /\ url.hits # <<>> THEN url.hits[1]
               ELSE ""
    IN IF cid # "" /\ cid \notin Sentinels THEN <<cid>> ELSE <<>>

\* The records read.
CidValues ==
    {NoValue, EmptyString, Value("", TRUE, <<>>), Value("A", FALSE, <<"A">>),
     Value("A", TRUE, <<"A">>), Value("See CSV", FALSE, <<>>), Value("On-Chain", FALSE, <<>>),
     Value("Arweave", TRUE, <<>>), Value("--", TRUE, <<>>)}
UrlValues ==
    {NoValue, EmptyString, Value("https://ipfs.io/ipfs/B", TRUE, <<"B">>),
     Value("ipfs://B/C", FALSE, <<"B", "C">>), Value("https://arweave.net/x", FALSE, <<>>)}
Rows == [cid : CidValues, CID : CidValues, metadata_url : UrlValues,
         metadataUrl : {NoValue, Value("ipfs://C", FALSE, <<"C">>)}]

InitRows ==
    /\ Quiet
    /\ call \in {[fn |-> "row", row |-> r, done |-> FALSE, out |-> <<>>] : r \in Rows}

\* Lines 176-189 run on the record.
RunRow ==
    /\ call.fn = "row" /\ ~call.done
    /\ call' = [call EXCEPT !.done = TRUE, !.out = RowItems(call.row)]
    /\ UNCHANGED quietVars

NextRows == RunRow
SpecRows == InitRows /\ [][NextRows]_vars

\* ------------------------------------------------- the same item twice
\* The runs of two workers over a work list that holds an identifier more
\* than once (run() does not deduplicate the rows, lines 176-189).  The
\* gateway holds, for every identifier, one of the documents of the runs of
\* several workers or a JSON list.
RaceDocsOf(c) == SharedDocsOf(c) \cup {ListDoc(<<Succ(c)>>)}

InitRace ==
    /\ content \in {g \in [Cids -> UNION {RaceDocsOf(c) : c \in Cids}] : \A c \in Cids : g[c] \in RaceDocsOf(c)}
    /\ files = [c \in Cids |-> {}]
    /\ partial = {}
    /\ downloaded = {}
    /\ progressFile = Stored({})
    /\ lock = NoWorker
    /\ run \in {[items |-> its, nworkers |-> 2] : its \in {q \in ItemLists : ~(\A i, j \in 1..Len(q) : i # j => q[i] # q[j])}}
    /\ queue = run.items
    /\ stack = [w \in Workers |-> <<>>]
    /\ task = [w \in Workers |-> [fetched |-> {}, again |-> FALSE, missing |-> {}]]
    /\ hist = [failed |-> FALSE, okTop |-> {}, returned |-> 0, raised |-> FALSE, kills |-> 0]
    /\ dl = [script |-> Script(Raised, 1, Raised), res |-> [ok |-> FALSE, attempts |-> 0]]
    /\ call = NoCall

SpecRace == InitRace /\ [][Next]_vars

\* ------------------------------------- download_from_uri (nft_downloader)
\* EnhancedNFTDownloader.download_from_uri(uri, filename, retries), lines
\* 145-182, run on its own.  The uri is an ipfs:// URI, a bare hash (lines
\* 148-149 put ipfs:// before it) or an http(s) URL.
UriKinds == {"ipfs", "bare", "http"}
\* is_ipfs_reference, lines 82-98, on the uri after lines 148-149.
IsIpfsReference(kind) == kind \in {"ipfs", "bare"}
\* normalize_ipfs_uri, lines 100-104: the hash of an ipfs:// URI, any other
\* uri as it is.
NormalizeIpfsUri(kind) == IF IsIpfsReference(kind) THEN "hash" ELSE "url"
\* Lines 153-162: the URLs to try, in order.
IpfsGateways == <<"ipfs.io", "gateway.pinata.cloud", "cloudflare-ipfs.com", "dweb.link", "gateway.ipfs.io">>
GatewaysOf(kind) == IF IsIpfsReference(kind) THEN IpfsGateways ELSE <<"url">>
\* The retries argument goes up to MaxRetries (3 when left out, line 145).
MaxRetries == 2
\* What session.get gives: a response with a status code, or an exception
\* (time-out, refused connection).
Statuses == {200, 404, 502}
Answers == {Raised} \cup {Answer(st, 0) : st \in Statuses}
\* No request has been made yet.
NoAnswer == Answer(0, 0)
\* The target file: not there, there from before, or the body of the
\* response of a gateway.
BodyOf(url) == [body |-> url]
NoFile == [body |-> "none"]
OldFile == [body |-> "old"]
NoResult == [ok |-> FALSE, hash |-> "none", ctype |-> "none", set |-> FALSE]
\* Line 182 and line 177.
Failure == [ok |-> FALSE, hash |-> "None", ctype |-> "None", set |-> TRUE]
Success(kind, url) == [ok |-> TRUE, hash |-> NormalizeIpfsUri(kind), ctype |-> url, set |-> TRUE]

InitUri ==
    /\ Quiet
    /\ call \in {[fn |-> "uri", kind |-> k, retries |-> r, attempt |-> 0, gw |-> 1,
                   log |-> <<>>, oks |-> 0, last |-> NoAnswer, before |-> t, target |-> t,
                   ret |-> NoResult] :
                    k \in UriKinds, r \in 0..MaxRetries, t \in {NoFile, OldFile}}

\* A mutant of Request: the body of any response is written to the target
\* file, and the status is looked at afterwards.
RequestWritesFirst(a) ==
    /\ call.fn = "uri" /\ ~call.ret.set /\ call.attempt < call.retries
    /\ LET gws == GatewaysOf(call.kind)
           url == gws[call.gw]
           c1 == [call EXCEPT !.log = Append(@, url), !.last = a,
                              !.target = IF a.exc THEN @ ELSE BodyOf(url)]
       IN IF ~a.exc /\ a.status = 200
          THEN call' = [c1 EXCEPT !.oks = @ + 1, !.ret = Success(call.kind, url)]
          ELSE call' = [c1 EXCEPT !.gw = IF call.gw = Len(gws) THEN 1 ELSE @ + 1,
                                  !.attempt = IF call.gw = Len(gws) THEN @ + 1 ELSE @]
    /\ UNCHANGED quietVars

\* Lines 164-180, one round of the inner loop: session.get on the next URL is
\* answered with a.  On 200 the body is written and the call returns; any
\* other status and any exception go on to the next URL, and after the last
\* URL to the next attempt.
Request(a) ==
    /\ call.fn = "uri" /\ ~call.ret.set /\ call.attempt < call.retries
    /\ LET gws == GatewaysOf(call.kind)
           url == gws[call.gw]
           c1 == [call EXCEPT !.log = Append(@, url), !.last = a]
       IN IF ~a.exc /\ a.status = 200
          THEN call' = [c1 EXCEPT !.oks = @ + 1, !.target = BodyOf(url),
                                  !.ret = Success(call.kind, url)]
          ELSE call' = [c1 EXCEPT !.gw = IF call.gw = Len(gws) THEN 1 ELSE @ + 1,
                                  !.attempt = IF call.gw = Len(gws) THEN @ + 1 ELSE @]
    /\ UNCHANGED quietVars

\* Line 182: the loops are over.
GiveUp ==
    /\ call.fn = "uri" /\ ~call.ret.set /\ call.attempt = call.retries
    /\ call' = [call EXCEPT !.ret = Failure]
    /\ UNCHANGED quietVars

NextUri == (\E a \in Answers : Request(a)) \/ GiveUp
SpecUri == InitUri /\ [][NextUri]_vars

\* =============================================================== claims
RunDone == queue = <<>> /\ \A w \in Workers : stack[w] = <<>>
Range(q) == {q[i] : i \in 1..Len(q)}
OnDisk == {c \in Cids : files[c] # {}}
\* Worker w is about to return from the download_cid call of a work item.
TopReturn(w) == At(w, "ret") /\ Len(stack[w]) = 1

\* C1 as stated: with one worker, a second download_cid(id), made after an
\* earlier download_cid(id) has returned True, returns True and makes no HTTP
\* request at all (_download is not called for any identifier).  Stated on the
\* runs that have met no JSON document with a list on top, whose fetch-time
\* expansion lines 153 and 170 cut short.
C1_Original ==
    \A w \in Workers :
        (run.nworkers = 1 /\ TopReturn(w) /\ task[w].again
           /\ \A c \in Cids : content[c].parsed.t # "list")
            => (Top(w).ret /\ task[w].fetched = {})

\* C1 as amended: with one worker, a second download_cid(id), made after an
\* earlier download_cid(id) has returned True, returns True and makes no HTTP
\* request for id; it makes no request at all exactly when every identifier
\* found in the stored document of id had a file when the call looked.
C1_SecondCall ==
    \A w \in Workers :
        (run.nworkers = 1 /\ TopReturn(w) /\ task[w].again)
            => /\ Top(w).ret
               /\ Top(w).cid \notin task[w].fetched
               /\ (task[w].fetched = {}) <=> (task[w].missing = {})

C1_Witness ==
    \E w \in Workers :
        /\ run.nworkers = 1 /\ TopReturn(w) /\ task[w].again
        /\ Top(w).ext = ".json" /\ Top(w).ret /\ task[w].fetched = {}

\* The identifiers a document names, itself left out.
NamedIn(c) ==
    IF content[c] = NoDoc \/ (Classify(content[c]) = ".json" /\ content[c].parsed.t = "fail")
    THEN {}
    ELSE Range(content[c].hits) \ {c}
\* The identifiers that are root or are named, at any depth, in a JSON or HTML
\* document reached from root.
Expand(S) == S \cup UNION {NamedIn(c) : c \in {x \in S : content[x] # NoDoc /\ Classify(content[x]) \in {".json", ".html"}}}
ReachFrom(root) == Expand(Expand(Expand({root})))

\* C2: from empty storage, with one worker and every fetch succeeding,
\* download_cid(root) for a root classified as JSON ends with exactly one file
\* for root and for every identifier named, at any depth, in the JSON and HTML
\* documents reached from it, each under the extension of its bytes, and with no
\* other file.
C2_RecursiveDiscovery ==
    (RunDone /\ run.nworkers = 1 /\ Len(run.items) = 1 /\ ~hist.failed /\ hist.kills = 0
       /\ content[run.items[1]] # NoDoc /\ Classify(content[run.items[1]]) = ".json")
    => /\ OnDisk = ReachFrom(run.items[1])
       /\ \A c \in OnDisk : files[c] = {Classify(content[c])}

\* C3: a run with more than one worker over pairwise distinct identifiers whose
\* documents name no other identifier, every fetch succeeding, ends with exactly
\* one file per work item and no other, with self.downloaded equal to the set of
\* work items, and with a readable progress file that lists exactly that set.
Distinct(q) == \A i, j \in 1..Len(q) : i # j => q[i] # q[j]
C3_FanOut ==
    (RunDone /\ run.nworkers > 1 /\ Distinct(run.items) /\ ~hist.failed /\ hist.kills = 0
       /\ \A c \in Range(run.items) : NamedIn(c) = {})
    => /\ OnDisk = Range(run.items)
       /\ \A c \in OnDisk : Cardinality(files[c]) = 1
       /\ downloaded = Range(run.items)
       /\ progressFile = Stored(Range(run.items))

C3_Witness ==
    /\ RunDone /\ run.nworkers = 2 /\ run.items = <<"A", "B">> /\ ~hist.failed
    /\ content["A"] = PngDoc /\ content["B"] = PngDoc
    /\ OnDisk = {"A", "B"} /\ progressFile = Stored({"A", "B"})

\* A measure of the work a run still has to do.  A call that has yet to scan
\* its document is counted with three units per identifier the document names,
\* a call about to fetch or to create a file with next to nothing; creating the
\* file of an identifier pays for the calls of all workers that then find it,
\* and taking a work item pays for the call it starts.
LongestList == CHOOSE n \in 0..8 :
    /\ \A c \in Cids : \A d \in DocsOf(c) \cup SharedDocsOf(c) : Len(d.hits) <= n
    /\ \E c \in Cids : \E d \in DocsOf(c) \cup SharedDocsOf(c) : Len(d.hits) = n
Named(c) == Len(content[c].hits)
FrameWork(f) ==
    CASE f.pc = "ret" -> 1
      [] f.pc = "loop" -> 3 * Len(f.nested) + 2
      [] f.pc = "dump" -> 3 * Named(f.cid) + 3
      [] f.pc = "lock" -> 3 * Named(f.cid) + 4
      [] f.pc = "writing" -> 3 * Named(f.cid) + 5
      [] f.pc = "write" -> IF files[f.cid] # {} THEN 3 * Named(f.cid) + 6 ELSE 1
      [] f.pc = "start" -> IF files[f.cid] # {} THEN 3 * Named(f.cid) + 3 ELSE 2
RECURSIVE StackWork(_)
StackWork(st) == IF st = <<>> THEN 0 ELSE FrameWork(Head(st)) + StackWork(Tail(st))
RECURSIVE SumWork(_)
SumWork(W) == IF W = {} THEN 0
              ELSE LET w == CHOOSE x \in W : TRUE IN StackWork(stack[w]) + SumWork(W \ {w})
Work ==
    (Cardinality(Workers) * (3 * LongestList + 6) + 1) * Cardinality(Cids \ OnDisk)
      + (3 * LongestList + 4) * Len(queue)
      + SumWork(Workers)

\* C4: every download_cid call ends, whatever the documents name (themselves,
\* each other), whether the fetches succeed or fail and whether the identifiers
\* have a file or not: every step of a run lowers the measure Work, a natural
\* number, so no run takes steps for ever and no identifier is fetched or
\* written without bound; and a run that has not handed back every work item
\* can take a step.
C4_Termination ==
    /\ [](RunDone \/ ENABLED Next)
    /\ [][Work' < Work /\ Work' >= 0]_vars

C4_Witness ==
    /\ RunDone
    /\ content["A"] = DictDoc(<<"B">>) /\ content["B"] = HtmlDoc(<<"A">>)
    /\ run.items = <<"A", "B">>
    /\ {"A", "B"} \subseteq OnDisk

\* C5: _download makes at most 40 attempts; it returns the content at the first
\* attempt whose response qualifies, having made no attempt after it; when no
\* attempt qualifies, exceptions and other responses alike, it makes exactly 40
\* attempts and returns failure.
C5_RetryBound ==
    dl.res.attempts # 0 =>
        LET n == dl.res.attempts
            good == {i \in 1..MaxAttempts : Qualifies(ResponseAt(dl.script, i))}
        IN /\ n \in 1..40
           /\ dl.res.ok => (n \in good /\ \A i \in 1..(n - 1) : i \notin good)
           /\ ~dl.res.ok => (n = 40 /\ good = {})
           /\ good = {} => (~dl.res.ok /\ n = 40)

C5_Witness ==
    /\ dl.res.attempts = 40 /\ ~dl.res.ok
    /\ dl.script.first = Raised /\ dl.script.then = Answer(404, 999)
    /\ dl.script.switch = 2

\* C6: the first attempt of _download is accepted (the content returned after
\* one attempt) if and only if its response has status 200 and a body of more
\* than 1000 bytes: 999 and 1000 bytes under status 200 are refused, 1001 bytes
\* accepted, and any other status refused whatever the size.
C6_SizeThreshold ==
    dl.res.attempts # 0 =>
        LET r == ResponseAt(dl.script, 1) IN
        (dl.res.ok /\ dl.res.attempts = 1) <=> (~r.exc /\ r.status = 200 /\ r.len >= 1001)

C6_Witness ==
    /\ dl.res.attempts > 1
    /\ dl.script.first = Answer(200, 1000) /\ dl.script.switch = 2
    /\ dl.script.then = Answer(200, 1001) /\ dl.res.ok

\* C7: when a download_cid call returns True its identifier has a file under one
\* of the nine extensions; when it returns False the identifier had no file at
\* the existence check and the call has written none.
C7_ReturnContract ==
    \A w \in Workers :
        At(w, "ret") =>
            IF Top(w).ret
            THEN \E i \in 1..Len(Exts) : Exts[i] \in files[Top(w).cid]
            ELSE ~Top(w).existed /\ "file" \notin Top(w).eff

C7_Witness ==
    \E w \in Workers :
        /\ At(w, "ret") /\ Top(w).ret /\ ~Top(w).existed
        /\ "file" \in Top(w).eff /\ files[Top(w).cid] = {".png"}

\* Worker w takes the step of a call whose identifier has no file and whose
\* _download returns None.
FailedFetchStep(w) ==
    /\ At(w, "start")
    /\ files[Top(w).cid] = {}
    /\ Len(stack'[w]) = Len(stack[w])
    /\ stack'[w][Len(stack[w])].pc = "ret"

\* C8: a download_cid call whose identifier has no file and whose _download
\* returns None returns False and leaves the storage directory, self.downloaded
\* and the progress file as they were.
C8_FailedFetchFrame ==
    [][\A w \in Workers :
          FailedFetchStep(w) =>
              /\ ~stack'[w][Len(stack[w])].ret
              /\ stack'[w][Len(stack[w])].eff = {}
              /\ files' = files /\ partial' = partial
              /\ downloaded' = downloaded /\ progressFile' = progressFile]_vars

C8_Witness ==
    \E w \in Workers :
        /\ At(w, "ret") /\ ~Top(w).ret /\ Top(w).eff = {}
        /\ OnDisk # {} /\ downloaded # {}

\* C9: in every state, also after a kill at any step and a restart, every
\* identifier the progress file lists has a file in the storage directory.
C9_ProgressSubset ==
    progressFile.ok => \A c \in progressFile.ids : files[c] # {}

C9_Witness ==
    /\ hist.kills = 1
    /\ progressFile.ok /\ progressFile.ids # {}
    /\ \E c \in Cids : files[c] # {} /\ c \notin progressFile.ids
    /\ \E w \in Workers : stack[w] # <<>>

\* Worker w takes the step in which write_bytes (line 139) opens the file.
WriteStep(w) ==
    /\ At(w, "write")
    /\ Len(stack'[w]) = Len(stack[w])
    /\ stack'[w][Len(stack[w])].pc = "writing"

\* C10: once an identifier has a file, no step of any worker writes a file for
\* it again, under any extension, and none deletes its file; so no identifier
\* ever has two files.
C10_Original ==
    [][/\ \A w \in Workers : WriteStep(w) => files[Top(w).cid] = {}
       /\ \A c \in Cids : files[c] \subseteq files'[c]
       /\ \A c \in Cids : Cardinality(files'[c]) <= 1]_vars

\* Every match in a JSON value, at any depth.
RECURSIVE AllHits(_)
AllHits(obj) ==
    IF obj.t = "str" THEN Range(obj.hits)
    ELSE UNION {AllHits(obj.vals[i]) : i \in 1..Len(obj.vals)}

\* C11: walking a JSON value, or scanning an HTML text, with parent X never
\* yields X, also when X occurs in it, and yields every other identifier that
\* occurs in it; so the loop over the result never calls download_cid(X).
C11_SelfExclusion ==
    (call.fn \in {"walk", "scan"} /\ call.done)
        => /\ call.parent \notin Range(call.out)
           /\ Range(call.out) = AllHits(call.obj) \ {call.parent}

C11_Witness ==
    /\ call.fn = "walk" /\ call.done /\ call.parent = "A"
    /\ call.obj = JDict(<<JStr(<<"A">>), JList(<<JStr(<<"B", "A">>)>>)>>)
    /\ call.out = <<"B">>

\* The signatures in the order of the claim, with their extensions.
SigOrder == <<"html", "png", "jpg", "gif", "webp", "mp4", "glb">>
SigExt == <<".html", ".png", ".jpg", ".gif", ".webp", ".mp4", ".glb">>

\* C12: the extension is that of the first signature, in the order HTML
\* doctype, PNG, JPEG, GIF8, RIFF/WEBP, ISO-BMFF tag, glTF, that the bytes
\* match; with no signature matching it is .json when the bytes parse as JSON
\* and .bin otherwise; it is always one of the nine extensions.
C12_ClassifierOrder ==
    (call.fn = "classify" /\ call.done) =>
        LET sigs == SigsOf(call.bytes)
            hit == {i \in 1..Len(SigOrder) : SigOrder[i] \in sigs}
        IN /\ call.out \in ExtSet
           /\ hit # {} => \E i \in hit : call.out = SigExt[i] /\ \A j \in hit : i <= j
           /\ (hit = {} /\ call.bytes.json) => call.out = ".json"
           /\ (hit = {} /\ ~call.bytes.json) => call.out = ".bin"

C12_Witness ==
    /\ call.fn = "classify" /\ call.done
    /\ call.bytes = [head |-> "gltf", tag4 |-> "ftyp", tag8 |-> "other", json |-> FALSE]
    /\ call.out = ".mp4"

\* The base58 alphabet has no 0, O, I and l.
Base58(ch) == Alnum(ch) /\ ch # "0"
\* The head and body of the text are a run of alphanumerics of their own.
OwnRun(t) == t.pre \in {<<>>, <<"-">>, <<"ipfs://">>, <<"-", "IPFS://">>}

\* C13: a text that holds Qm followed by 44 base58 characters gives exactly
\* that 46-character identifier; a run that starts with Qm and is 45 or 47
\* characters long gives no match.
C13_Recognition ==
    (call.fn = "find" /\ call.done /\ call.text.head = <<"Q", "m">>
       /\ Base58(call.text.body) /\ OwnRun(call.text))
    => /\ call.text.n = V0Body
            => call.out = <<call.text.head \o Repeat(call.text.body, V0Body)>>
       /\ call.text.n \in {V0Body - 1, V0Body + 1} => call.out = <<>>

\* C14: a downloader built on the output directory after identifiers were
\* added to self.downloaded starts with exactly the set the earlier one had,
\* whatever the order of the additions and of the list in the file; when the
\* earlier one started empty, that is exactly the identifiers added.
C14_RoundTrip ==
    [][(call.fn = "progress" /\ call'.restarts = call.restarts + 1 /\ call.hist # <<>>)
          => /\ call'.mem = call.mem
             /\ call.start = {} =>
                    /\ call'.mem = Range(call.hist)
                    /\ Cardinality(call'.mem) = Cardinality(Range(call.hist))]_vars

C14_Witness ==
    /\ call.fn = "progress" /\ call.restarts = 1 /\ call.hist = <<>>
    /\ call.first = PFile("obj", PVal("list", <<"C", "A", "B">>))
    /\ call.mem = {"A", "B", "C"}

C16_Containment ==
    /\ ~hist.raised
    /\ RunDone => hist.returned = Len(run.items)

\* Worker w takes the step in which it expands a .json document that does not
\* parse: the file it found, cut short or with a byte order mark, or the
\* bytes it has just fetched and written.
UnparsedExpandStep(w) ==
    /\ stack[w] # <<>> /\ stack'[w] # stack[w]
    /\ \/ /\ At(w, "start") /\ Exists(Top(w).cid) /\ FoundExt(Top(w).cid) = ".json"
          /\ (Top(w).cid \in partial \/ content[Top(w).cid].parsed.t = "fail")
       \/ /\ At(w, "dump") /\ Top(w).ext = ".json"
          /\ content[Top(w).cid].parsed.t = "fail"

\* C17: when the .json document a download_cid call expands does not parse,
\* the call makes no nested call and no fetch, leaves every file as it is and
\* returns True.
C17_MalformedJson ==
    [][\A w \in Workers :
          UnparsedExpandStep(w) =>
              /\ Len(stack'[w]) = Len(stack[w])
              /\ stack'[w][Len(stack[w])].pc = "ret"
              /\ stack'[w][Len(stack[w])].ret
              /\ stack'[w][Len(stack[w])].nested = <<>>
              /\ task'[w].fetched = task[w].fetched
              /\ files' = files /\ partial' = partial]_vars

C17_Witness ==
    \E w \in Workers :
        /\ At(w, "ret") /\ Top(w).ret /\ Top(w).ext = ".json"
        /\ ~Top(w).existed /\ "file" \in Top(w).eff
        /\ content[Top(w).cid] = BomDoc(<<Succ(Top(w).cid)>>)
        /\ files[Top(w).cid] = {".json"} /\ files[Succ(Top(w).cid)] = {}

\* The progress file is not JSON, or is JSON of another shape than an object
\* whose "downloaded" is a list of strings.
Corrupt(f) ==
    \/ f.kind \in {"garbage", "notdict", "nokey"}
    \/ f.kind = "obj" /\ f.val.t # "list"
    \/ f.kind = "obj" /\ f.val.t = "list" /\ \E i \in 1..Len(f.val.items) : f.val.items[i] = Unhashable

\* C18: a downloader built on a progress file that is not JSON, or is JSON of
\* the wrong shape, starts with the empty set, and after its first save the
\* file lists exactly the identifiers added since.
C18_Corruption ==
    (call.fn = "progress" /\ Corrupt(call.first))
        => /\ call.start = {}
           /\ call.hist # <<>> => ReadProgress(call.file) = Range(call.hist)

\* The record has no direct identifier: the column looked at (cid, or CID when
\* cid is missing or empty) is missing, empty or white space.
NoDirect(row) ==
    IF Truthy(row.cid) THEN row.cid.core = ""
    ELSE IF Truthy(row.CID) THEN row.CID.core = ""
    ELSE TRUE
\* The metadata URL of the record.
UrlOf(row) == IF Truthy(row.metadata_url) THEN row.metadata_url ELSE row.metadataUrl

\* C19: the identifiers run() hands to download_cid are never empty and never
\* one of the four sentinel strings; a record with no direct identifier gets
\* the first identifier cid_pattern finds in its metadata URL, and is dropped
\* when it finds none.
C19_WorkSource ==
    (call.fn = "row" /\ call.done) =>
        /\ \A i \in 1..Len(call.out) : call.out[i] # "" /\ call.out[i] \notin Sentinels
        /\ NoDirect(call.row) =>
              call.out = IF UrlOf(call.row).hits # <<>> THEN <<UrlOf(call.row).hits[1]>> ELSE <<>>

C19_Witness ==
    /\ call.fn = "row" /\ call.done
    /\ call.row.cid = Value("", TRUE, <<>>) /\ call.row.CID = Value("--", TRUE, <<>>)
    /\ call.row.metadata_url = Value("ipfs://B/C", FALSE, <<"B", "C">>)
    /\ call.out = <<"B">>

\* C20: at most one worker at a time is between adding an identifier to
\* self.downloaded and the end of the rewrite of the progress file, and that
\* worker holds the lock and writes the whole set as it is then; so whenever
\* no worker holds the lock, after at least one save, the progress file is
\* readable and lists exactly self.downloaded.
C20_MutualExclusion ==
    /\ \A w, v \in Workers : (At(w, "dump") /\ At(v, "dump")) => w = v
    /\ \A w \in Workers : At(w, "dump") => (lock = w /\ Top(w).snap = downloaded)
    /\ (lock = NoWorker /\ downloaded # {} /\ hist.kills = 0)
          => progressFile = Stored(downloaded)

C20_Witness ==
    \E w, v \in Workers :
        /\ At(w, "dump") /\ At(v, "lock") /\ lock = w
        /\ Cardinality(downloaded) = 2 /\ Top(v).cid \notin downloaded

\* What a one-worker run over the work list leaves on disk when every fetch
\* succeeds: download_cid, lines 80-171, followed call by call.  disk is the
\* set of identifiers that have a file.
RECURSIVE SeqCall(_, _), SeqLoop(_, _)
SeqLoop(nested, disk) ==
    IF nested = <<>> THEN disk
    ELSE SeqLoop(Tail(nested),
                 IF Head(nested) \in disk THEN disk ELSE SeqCall(Head(nested), disk))
SeqCall(c, disk) ==
    LET d == content[c]
        ext == Classify(d)
    IN IF c \in disk
       THEN SeqLoop(ExistingNested(d, c, ext), disk)
       ELSE SeqLoop(FreshNested(d, c, ext), disk \cup {c})
RECURSIVE SeqRun(_, _)
SeqRun(items, disk) ==
    IF items = <<>> THEN disk ELSE SeqRun(Tail(items), SeqCall(Head(items), disk))

\* Both workers have fetched identifier c in their last work item.
Raced(c) == \A w \in 1..2 : c \in task[w].fetched

\* C21: when two workers have fetched the same absent identifier and every
\* fetch succeeded, the finished run has exactly one file for it, has it in the
\* ProgressSet and the progress file, and its storage and ProgressSet are those
\* of a one-worker run over the same work list.
C21_BenignRace ==
    (RunDone /\ run.nworkers = 2 /\ ~hist.failed /\ hist.kills = 0 /\ \E c \in Cids : Raced(c))
    => /\ \A c \in Cids : Raced(c) => Cardinality(files[c]) = 1 /\ c \in downloaded
       /\ partial = {}
       /\ OnDisk = SeqRun(run.items, {})
       /\ downloaded = SeqRun(run.items, {})
       /\ progressFile = Stored(downloaded)

\* The workers that are inside a download_cid call for a work item.
Busy == {w \in Workers : stack[w] # <<>>}

\* In this step worker w calls download_cid on a nested identifier.
NestedCall(w) == stack[w] # <<>> /\ Len(stack'[w]) = Len(stack[w]) + 1

\* C22: a nested identifier is processed by the call that found it, on the
\* same worker, while that call waits in its loop, and is never put on the
\* work list; so each worker has at most one call running (the only place a
\* fetch can be in flight) and no more workers are busy than were configured;
\* with one worker a work item is taken only when all items before it have
\* returned, in list order.
C22_BoundedFanOut ==
    /\ [](/\ Cardinality(Busy) <= run.nworkers
          /\ \A w \in Busy : \A i \in 1..(Len(stack[w]) - 1) : stack[w][i].pc = "loop"
          /\ Len(queue) <= Len(run.items))
    /\ [][/\ \A w \in Workers :
               NestedCall(w)
               => /\ At(w, "loop") /\ Top(w).nested # <<>>
                  /\ stack'[w][Len(stack'[w])].cid = Head(Top(w).nested)
                  /\ queue' = queue
                  /\ \A v \in Workers \ {w} : stack'[v] = stack[v]
          /\ queue' # queue
               => /\ queue # <<>> /\ queue' = Tail(queue)
                  /\ \E w \in Workers : stack[w] = <<>> /\ stack'[w] = <<Frame(Head(queue))>>
                  /\ Head(queue) = run.items[Len(run.items) - Len(queue) + 1]
                  /\ run.nworkers = 1 => Busy = {} /\ hist.returned = Len(run.items) - Len(queue)
       ]_vars

\* Worker 1 is in the call of a nested identifier while worker 2 is in a call
\* of its own.
C22_Witness ==
    /\ run.nworkers = 2 /\ Busy = {1, 2}
    /\ Len(stack[1]) = 2 /\ stack[1][1].pc = "loop" /\ At(1, "write")
    /\ At(2, "write")

\* C23: a call that fetches its identifier writes the file first, then adds
\* the identifier to the ProgressSet and rewrites the progress file, and only
\* then goes through the identifiers found in the document: a call that has
\* not written yet has no nested identifier to process, a call at the lock has
\* its file, a call in its loop (every caller of a nested call is there) has
\* its file, is in the ProgressSet and has rewritten the progress file, which
\* with one worker lists it whenever no rewrite is going on.
C23_StepOrder ==
    \A w \in Workers : \A i \in 1..Len(stack[w]) :
        LET f == stack[w][i] IN
        /\ i < Len(stack[w]) => f.pc = "loop"
        /\ ~f.existed =>
             /\ f.pc \in {"start", "write"} => f.nested = <<>> /\ f.eff = {}
             /\ f.pc \in {"writing", "lock", "dump", "loop"} => files[f.cid] # {}
             /\ f.pc \in {"writing", "lock"} => f.nested = <<>>
             /\ f.pc \in {"dump", "loop"} => f.cid \in downloaded
             /\ f.pc = "dump" => f.nested = <<>> /\ f.cid \in f.snap
             /\ f.pc = "loop" => /\ f.eff = {"file", "set", "pfile"}
                                 /\ (run.nworkers = 1 /\ lock = NoWorker)
                                    => progressFile.ok /\ f.cid \in progressFile.ids

\* A nested identifier has just been fetched by the call that fetched its
\* parent.
C23_Witness ==
    /\ run.nworkers = 1 /\ Len(stack[1]) = 2 /\ At(1, "write")
    /\ ~stack[1][1].existed /\ stack[1][1].cid \in downloaded
    /\ files[stack[1][1].cid] # {} /\ stack[1][1].cid \in progressFile.ids

\* How often identifier c occurs in the strings of a JSON value, and in a list.
RECURSIVE Occurrences(_, _)
Occurrences(obj, c) ==
    IF obj.t = "str" THEN Cardinality({i \in 1..Len(obj.hits) : obj.hits[i] = c})
    ELSE IF obj.vals = <<>> THEN 0
    ELSE Occurrences(obj.vals[1], c) + Occurrences([obj EXCEPT !.vals = Tail(obj.vals)], c)
CountIn(q, c) == Cardinality({i \in 1..Len(q) : q[i] = c})

C25_ExistingSkipped ==
    [][\A w \in Workers :
          /\ NestedCall(w) => ~Exists(stack'[w][Len(stack'[w])].cid)
          /\ (At(w, "loop") /\ Top(w).nested # <<>> /\ stack'[w] # stack[w])
             => IF Exists(Head(Top(w).nested))
                THEN /\ stack'[w] = SetTop(w, [Top(w) EXCEPT !.nested = Tail(@)])[w]
                     /\ task' = task /\ content' = content /\ files' = files
                ELSE /\ NestedCall(w)
                     /\ stack'[w][Len(stack'[w])] = Frame(Head(Top(w).nested))
      ]_vars

\* A document names B twice: B was fetched for the first entry and skipped
\* for the second.
C25_Witness ==
    /\ run.nworkers = 1 /\ Len(stack[1]) = 1 /\ At(1, "loop") /\ Top(1).nested = <<>>
    /\ content["A"] = DictDoc(<<"B", "B">>) /\ Top(1).cid = "A"
    /\ files["B"] # {} /\ ~hist.failed /\ task[1].fetched = {"A", "B"}

\* C26: a text whose only candidate differs from a valid identifier in letter
\* case where the pattern fixes the case (a head other than Qm, a head other
\* than baf, an uppercase letter in the body after baf) gives no match.
C26_CaseSensitive ==
    (call.fn = "find" /\ call.done
       /\ \/ call.text.head \in {<<"q", "m">>, <<"Q", "M">>} /\ Base58(call.text.body)
          \/ call.text.head = <<"B", "a", "f">>
          \/ call.text.head = <<"b", "a", "f">> /\ call.text.body = "A")
    => call.out = <<>>

C28_SameExpansion ==
    [][\A w \in Workers :
          (At(w, "dump") /\ stack'[w] # stack[w])
          => LET f == Top(w) IN
             stack'[w] = SetTop(w, AfterExpand([f EXCEPT !.snap = {}],
                                               ExistingNested(content[f.cid], f.cid, f.ext)))[w]
      ]_vars

\* In this step the one worker calls _download for the identifier of its
\* running call (the existing-file branch marks the call as existed).
FetchStep(c) ==
    /\ run.nworkers = 1 /\ At(1, "start") /\ Top(1).cid = c
    /\ stack'[1] # stack[1] /\ ~stack'[1][Len(stack'[1])].existed

\* C29 as stated: in a one-worker run no identifier is fetched that was
\* fetched before for the same work item, whether that fetch succeeded or
\* failed.
C29_Original ==
    [][\A c \in Cids : FetchStep(c) => c \notin task[1].fetched]_vars

\* C29, amended: in a one-worker run an identifier is fetched only while it
\* has no file and is not in the ProgressSet, so at most one fetch of it
\* succeeds; it is fetched again for the same work item only after a fetch
\* that failed.
C29_OneSuccessfulFetch ==
    [][\A c \in Cids :
          FetchStep(c) => /\ files[c] = {} /\ c \notin downloaded /\ c \notin partial
                          /\ c \in task[1].fetched => hist.failed
      ]_vars

\* B is named twice in the document of A: its first fetch failed and the
\* second one has just succeeded.
C29_Witness ==
    /\ run.nworkers = 1 /\ Len(stack[1]) = 2 /\ At(1, "write") /\ Top(1).cid = "B"
    /\ content["A"] = DictDoc(<<"B", "B">>) /\ stack[1][1].nested = <<>>
    /\ hist.failed /\ files["B"] = {}

\* C30: when a run that was killed, or that had failed fetches, is followed by
\* a run in which every fetch succeeds, the second run ends with a file for
\* every identifier that is a work item or is named, at any depth, in the
\* stored JSON and HTML documents reached from a work item.  Stated on the
\* runs that have met no JSON document with a list on top (whose fetch-time
\* expansion lines 153 and 170 cut short).
C30_Convergence ==
    (RunDone /\ hist.kills = 1 /\ ~hist.failed /\ partial = {}
       /\ \A c \in Cids : content[c].parsed.t # "list")
    => \A c \in Range(run.items) : ReachFrom(c) \subseteq OnDisk

====
